---- MODULE Spec2Model ----
(***************************************************************************)
(* Model of the RSS ingestion backend (src/main.rs).                       *)
(*                                                                         *)
(* The MongoDB collection "feed_items" is a sequence of documents in       *)
(* insertion order; the position of a document is its identity. main       *)
(* creates no unique index, so several documents may share a link.         *)
(*                                                                         *)
(* Two tasks run fetch_and_store_feed: the background task                 *)
(* run_periodic_checker ("sched") and the /force-check handler ("force").  *)
(* One client issues POST /items/mark-posted, one client issues the two    *)
(* reads. Every .await on the store is one step. find and find_one read    *)
(* the collection in one step. update_many is issued outside any session   *)
(* or transaction: the server writes the matching documents one at a time, *)
(* each write atomic, the operation as a whole not isolated from other     *)
(* operations.                                                             *)
(*                                                                         *)
(* Spec runs all tasks concurrently over a small universe of feed          *)
(* documents; SpecSeq runs one operation at a time over the full universe  *)
(* and records the history variables the pre/post properties refer to;     *)
(* SpecRuns is SpecSeq with the scheduler's runs and mark-posted only;     *)
(* SpecPost interleaves two runs, a mark-posted call and a read over a     *)
(* one-entry feed; SpecLive lets the timer, the scheduler and /force-check *)
(* run without end, under the fairness of the timer and of the runtime.    *)
(***************************************************************************)
EXTENDS Integers, Sequences, FiniteSets, TLC

\* ----------------------------------------------------------------- bounds
\* longest feed document the feed source serves
MaxFeedLen == 2
\* most timer ticks that can be due and not yet consumed
MaxDue == 1
\* most operations (ingestion runs, mark-posted calls, reads) started in one behaviour
MaxOps == 3
\* most operations started in one behaviour over the one-entry feed
MaxRaceOps == 4

\* ------------------------------------------------------- option values
\* Option<T> as a sequence of length 0 or 1
NoneV == <<>>
Some(x) == <<x>>

\* an absent field stored as the text "null"
UnwrapOrNull(o) == IF o = NoneV THEN "null" ELSE o[1]

\* Option<&str>::unwrap_or_default().to_string()
UnwrapOrDefault(o) == IF o = NoneV THEN "" ELSE o[1]

\* -------------------------------------------------------------- inputs
\* rss::Item as the code reads it: four optional text fields
Raw(t, l, d, p) == [title |-> t, link |-> l, description |-> d, pub_date |-> p]

\* the raw entries the feed source can serve
RawItems ==
    { Raw(Some("t1"), Some("A"), Some("d1"), Some("p1")),
      Raw(Some("t2"), Some("A"), NoneV,      Some("p2")),
      Raw(Some("t1"), Some("B"), Some("d1"), NoneV),
      Raw(NoneV,      NoneV,     Some("d1"), Some("p1")),
      Raw(Some("t2"), NoneV,     NoneV,      NoneV) }

\* the sequences of at most n entries of S in which no entry is repeated verbatim
RECURSIVE SeqsUpTo(_, _)
SeqsUpTo(S, n) ==
    IF n = 0 THEN { <<>> }
    ELSE LET shorter == SeqsUpTo(S, n - 1)
             longest == { t \in shorter : Len(t) = n - 1 }
         IN  shorter \cup
             UNION { { Append(t, x) : x \in S \ { t[i] : i \in 1..Len(t) } } : t \in longest }

\* the channels a well-formed feed document can hold
Feeds == SeqsUpTo(RawItems, MaxFeedLen)

\* the response bodies of the feed source: a well-formed document or junk
Malformed == [wellformed |-> FALSE, items |-> <<>>]
Contents == { [wellformed |-> TRUE, items |-> f] : f \in Feeds } \cup { Malformed }
NoContent == [wellformed |-> FALSE, items |-> <<>>]

\* the raw entries served while every task runs concurrently
ConcItems ==
    { Raw(Some("t1"), Some("A"), Some("d1"), Some("p1")),
      Raw(Some("t1"), Some("B"), Some("d1"), NoneV) }
ConcContents ==
    { [wellformed |-> TRUE, items |-> f] : f \in SeqsUpTo(ConcItems, MaxFeedLen) }
        \cup { Malformed }

\* the link lists a mark-posted request can carry, as sets ($in ignores order and
\* repetition); a link is unknown to the store as long as no run has stored it
LinkSets == SUBSET { "A", "B" }

\* the raw entry served while two runs, a mark-posted call and a read interleave
OneItem == { Raw(Some("t1"), Some("A"), Some("d1"), Some("p1")) }
OneContents ==
    { [wellformed |-> TRUE, items |-> f] : f \in SeqsUpTo(OneItem, MaxFeedLen) }
        \cup { Malformed }

\* the bodies a fetch can return
Served(src) ==
    IF src = "all" THEN Contents ELSE IF src = "one" THEN OneContents ELSE ConcContents

\* ------------------------------------------------------------ the tasks
Procs == { "sched", "force" }

\* where a task rests between runs
Rest(p) == IF p = "sched" THEN "tick" ELSE "idle"

VARIABLES
    store,      \* the collection: sequence of RssItem documents
    due,        \* timer ticks due and not yet consumed by the scheduler loop
    pc,         \* per task: position inside run_periodic_checker / force_check
    content,    \* per task: the fetched bytes
    items,      \* per task: channel.into_items()
    idx,        \* per task: position of the for loop in items
    existing,   \* per task: existing_item, the result of find_one
    result,     \* per task: what fetch_and_store_feed returned
    touched,    \* per task: 1 once the run has issued a store operation, else 0
    runStart,   \* per task: the collection when the run started (history)
    source,     \* what the feed source serves in this behaviour (see Served); "live"
                \* marks the behaviours in which operations are started without limit
    lastOk,     \* the document of the run that returned Ok just before, no other
                \* operation having fetched or started since (history)
    again,      \* per task: the run fetched the document lastOk (history)
    swallowed,  \* the scheduler has logged and dropped the error of a run (history)
    started,    \* number of operations started so far
    hist,       \* whether this behaviour records the variables marked (history)
    mpc,        \* mark_items_posted: position
    markLinks,  \* mark_items_posted: req.links
    markPos,    \* update_many: the next document to examine
    markCount,  \* update_many: modified_count so far
    mres,       \* mark_items_posted: HTTP status of the response, 0 = none yet
    markStart,  \* number of documents stored when update_many was issued
    preStore,   \* the collection when update_many was issued (history)
    marked,     \* links of stored documents covered by a completed mark call (history)
    rpc,        \* read client: position
    rres,       \* read client: the items of the response body
    rstatus     \* read client: HTTP status of the response, 0 = none yet

ingestVars ==
    <<pc, content, items, idx, existing, result, touched, runStart, source, lastOk, again,
      swallowed, hist>>
markVars == <<mpc, markLinks, markPos, markCount, mres, markStart, preStore, marked>>
readVars == <<rpc, rres, rstatus>>
vars == <<store, due, started, ingestVars, markVars, readVars>>

\* ------------------------------------------------------ store operations
\* a record whose link falls back to the title when the entry has no link
NormalizeTitleKey(raw) ==
    [ title       |-> UnwrapOrDefault(raw.title),
      link        |-> IF raw.link = NoneV THEN UnwrapOrDefault(raw.title)
                      ELSE UnwrapOrDefault(raw.link),
      description |-> UnwrapOrDefault(raw.description),
      pub_date    |-> UnwrapOrDefault(raw.pub_date),
      posted      |-> FALSE ]

\* the canonical record built at main.rs:150-156
Normalize(raw) ==
    [ title       |-> UnwrapOrDefault(raw.title),
      link        |-> UnwrapOrDefault(raw.link),
      description |-> UnwrapOrDefault(raw.description),
      pub_date    |-> UnwrapOrDefault(raw.pub_date),
      posted      |-> FALSE ]

\* positions of the documents matching { "link": link }
Matching(s, link) == { i \in 1..Len(s) : s[i].link = link }

Min(S) == CHOOSE x \in S : \A y \in S : x <= y

\* find_one with the filter on the wrong field: { "title": link }
FindOneByTitle(s, link) ==
    IF { i \in 1..Len(s) : s[i].title = link } = {} THEN NoneV
    ELSE Some(s[Min({ i \in 1..Len(s) : s[i].title = link })])

\* a lookup that examines the newest document only
FindOneNewest(s, link) ==
    IF s # <<>> /\ s[Len(s)].link = link THEN Some(s[Len(s)]) ELSE NoneV

\* collection.find_one(doc! { "link": link }): the first match in natural order
FindOne(s, link) ==
    IF Matching(s, link) = {} THEN NoneV ELSE Some(s[Min(Matching(s, link))])

\* a write over the newest document instead of an insert
InsertOneOverwrite(s, doc) ==
    IF s = <<>> THEN <<doc>> ELSE [s EXCEPT ![Len(s)] = doc]

\* collection.insert_one(&rss_item)
InsertOne(s, doc) == Append(s, doc)

\* the insert without the is_none() test
StoreAlwaysInsert(s, found, doc) == Append(s, doc)

\* an upsert: a stored document with the link is replaced by the feed's entry
StoreUpsert(s, found, doc) ==
    IF found = NoneV THEN Append(s, doc)
    ELSE [i \in 1..Len(s) |-> IF s[i].link = doc.link THEN doc ELSE s[i]]

\* an insert that the store drops when a document with the link is stored by now
StoreUnlessPresent(s, found, doc) ==
    IF found = NoneV /\ Matching(s, doc.link) = {} THEN Append(s, doc) ELSE s

\* a skip that refreshes the stored text fields from the feed's entry
StoreKeepLatest(s, found, doc) ==
    IF found = NoneV THEN Append(s, doc)
    ELSE [i \in 1..Len(s) |->
             IF s[i].link = doc.link THEN [doc EXCEPT !.posted = s[i].posted] ELSE s[i]]

\* if existing_item.is_none() { insert_one } -- otherwise nothing is written
StoreAfterCheck(s, found, doc) == IF found = NoneV THEN InsertOne(s, doc) ELSE s

\* a parser that reads junk as a channel without items
ReadFromLenient(c) == [ok |-> TRUE, items |-> c.items]

\* Channel::read_from(&content[..])
ReadFrom(c) == IF c.wellformed THEN [ok |-> TRUE, items |-> c.items]
               ELSE [ok |-> FALSE, items |-> <<>>]

\* the empty filter in place of { "posted": false }
UnpostedFilterEmpty(doc) == TRUE

\* the filter of get_unposted_items: { "posted": false }
UnpostedFilter(doc) == doc.posted = FALSE

\* the filter of get_items: {}
AllFilter(doc) == TRUE

\* an update whose filter matches every document
MarkFilterAll(doc, links) == TRUE

\* the filter of mark_items_posted: { "link": { "$in": links } }
MarkFilter(doc, links) == doc.link \in links

\* an update that flips the flag instead of setting it
TogglePosted(doc) == [doc EXCEPT !.posted = ~doc.posted]

\* the update of mark_items_posted: { "$set": { "posted": true } }
SetPosted(doc) == [doc EXCEPT !.posted = TRUE]

\* matched_count in place of modified_count
Matched(doc) == 1

\* what one document adds to result.modified_count
Modified(doc) == IF SetPosted(doc) # doc THEN 1 ELSE 0

\* fetch_and_store_feed returned Err
IsError(r) == r \in { "FetchError", "ParseError", "StoreError" }

\* a handler that answers 200 whatever the run returned
ForceStatusOk(r) == 200

\* HTTP status of force_check for a result of fetch_and_store_feed
ForceStatus(r) == IF r = "Ok" THEN 200 ELSE 500

\* ----------------------------------------------------------------- Init
Start ==
    /\ store = <<>>
    /\ started = 0
    /\ due = 1
    /\ pc = [p \in Procs |-> Rest(p)]
    /\ content = [p \in Procs |-> NoContent]
    /\ items = [p \in Procs |-> <<>>]
    /\ idx = [p \in Procs |-> 0]
    /\ existing = [p \in Procs |-> NoneV]
    /\ result = [p \in Procs |-> "none"]
    /\ touched = [p \in Procs |-> 0]
    /\ runStart = [p \in Procs |-> <<>>]
    /\ lastOk = NoContent
    /\ again = [p \in Procs |-> FALSE]
    /\ swallowed = FALSE
    /\ mpc = "idle"
    /\ markLinks = {}
    /\ markPos = 0
    /\ markCount = 0
    /\ mres = 0
    /\ markStart = 0
    /\ preStore = <<>>
    /\ marked = {}
    /\ rpc = "idle"
    /\ rres = <<>>
    /\ rstatus = 0

\* all tasks at once: the feed source serves the documents over ConcItems
Init == Start /\ source = "small" /\ hist = FALSE

\* the feed document may differ from one fetch to the next
InitSeq == Start /\ source = "all" /\ hist = TRUE

\* the operations a behaviour may start
OpsLimit(src) == IF src = "one" THEN MaxRaceOps ELSE MaxOps

\* another operation may start
CanStart == source = "live" \/ started < OpsLimit(source)

\* the count of operations after one more has started
Started == IF source = "live" THEN started ELSE started + 1

\* ------------------------------------------------------------ ingestion
\* the interval timer reaches its next deadline
TimerFire ==
    /\ due < MaxDue
    /\ due' = due + 1
    /\ UNCHANGED <<store, started, ingestVars, markVars, readVars>>

\* a timer that starts a run on every tick, whether or not the last one is over
TickSpawned == TRUE

\* the loop of run_periodic_checker is suspended in interval.tick().await: the
\* run is awaited inside the loop body, so the loop is here only between runs
TickAwaited == pc["sched"] = "tick"

\* run_periodic_checker: interval.tick().await completes, the run starts
SchedTick ==
    /\ TickAwaited
    /\ due > 0
    /\ CanStart
    /\ started' = Started
    /\ due' = due - 1
    /\ pc' = [pc EXCEPT !["sched"] = "fetch"]
    /\ runStart' = [runStart EXCEPT !["sched"] = IF hist THEN store ELSE <<>>]
    /\ UNCHANGED <<store, content, items, idx, existing, result, touched, source, lastOk,
                   again, swallowed, hist, markVars, readVars>>

\* the timer reaches its deadline while the loop waits in interval.tick().await:
\* the tick completes at once and the run starts
TimerTick ==
    /\ TickAwaited
    /\ due = 0
    /\ CanStart
    /\ started' = Started
    /\ pc' = [pc EXCEPT !["sched"] = "fetch"]
    /\ runStart' = [runStart EXCEPT !["sched"] = IF hist THEN store ELSE <<>>]
    /\ UNCHANGED <<store, due, content, items, idx, existing, result, touched, source,
                   lastOk, again, swallowed, hist, markVars, readVars>>

\* POST /force-check arrives
ForceCheck ==
    /\ pc["force"] = "idle"
    /\ CanStart
    /\ started' = Started
    /\ pc' = [pc EXCEPT !["force"] = "fetch"]
    /\ runStart' = [runStart EXCEPT !["force"] = IF hist THEN store ELSE <<>>]
    /\ UNCHANGED <<store, due, content, items, idx, existing, result, touched, source,
                   lastOk, again, swallowed, hist, markVars, readVars>>

\* reqwest::get(..).await?.bytes().await? returns the body
FetchOk(p) ==
    /\ pc[p] = "fetch"
    /\ \E c \in Served(source) :
           /\ content' = [content EXCEPT ![p] = c]
           /\ again' = [again EXCEPT ![p] = hist /\ lastOk.wellformed /\ c = lastOk]
    /\ lastOk' = NoContent
    /\ pc' = [pc EXCEPT ![p] = "parse"]
    /\ UNCHANGED <<store, due, started, items, idx, existing, result, touched, runStart,
                   source, swallowed, hist, markVars, readVars>>

\* reqwest::get(..).await? fails: the error is returned
FetchErr(p) ==
    /\ pc[p] = "fetch"
    /\ result' = [result EXCEPT ![p] = "FetchError"]
    /\ lastOk' = NoContent
    /\ pc' = [pc EXCEPT ![p] = "ret"]
    /\ UNCHANGED <<store, due, started, content, items, idx, existing, touched, runStart,
                   source, again, swallowed, hist, markVars, readVars>>

\* Channel::read_from(&content[..])?
Parse(p) ==
    /\ pc[p] = "parse"
    /\ IF ReadFrom(content[p]).ok
       THEN /\ items' = [items EXCEPT ![p] = ReadFrom(content[p]).items]
            /\ idx' = [idx EXCEPT ![p] = 1]
            /\ pc' = [pc EXCEPT ![p] = "loop"]
            /\ UNCHANGED result
       ELSE /\ result' = [result EXCEPT ![p] = "ParseError"]
            /\ pc' = [pc EXCEPT ![p] = "ret"]
            /\ UNCHANGED <<items, idx>>
    /\ UNCHANGED <<store, due, started, content, existing, touched, runStart, source,
                   lastOk, again, swallowed, hist, markVars, readVars>>

\* the for loop is exhausted: Ok(())
LoopDone(p) ==
    /\ pc[p] = "loop"
    /\ idx[p] > Len(items[p])
    /\ result' = [result EXCEPT ![p] = "Ok"]
    /\ pc' = [pc EXCEPT ![p] = "ret"]
    /\ UNCHANGED <<store, due, started, content, items, idx, existing, touched, runStart,
                   source, lastOk, again, swallowed, hist, markVars, readVars>>

\* collection.find_one(filter).await? answers
FindStep(p) ==
    /\ pc[p] = "loop"
    /\ idx[p] <= Len(items[p])
    /\ existing' = [existing EXCEPT ![p] = FindOne(store, Normalize(items[p][idx[p]]).link)]
    /\ touched' = [touched EXCEPT ![p] = 1]
    /\ pc' = [pc EXCEPT ![p] = "check"]
    /\ UNCHANGED <<store, due, started, content, items, idx, result, runStart, source,
                   lastOk, again, swallowed, hist, markVars, readVars>>

\* collection.find_one(filter).await? fails: the error is returned
FindErr(p) ==
    /\ pc[p] = "loop"
    /\ idx[p] <= Len(items[p])
    /\ touched' = [touched EXCEPT ![p] = 1]
    /\ result' = [result EXCEPT ![p] = "StoreError"]
    /\ pc' = [pc EXCEPT ![p] = "ret"]
    /\ UNCHANGED <<store, due, started, content, items, idx, existing, runStart, source,
                   lastOk, again, swallowed, hist, markVars, readVars>>

\* if existing_item.is_none() { insert_one(..).await? }, then the next entry
CheckStep(p) ==
    /\ pc[p] = "check"
    /\ store' = StoreAfterCheck(store, existing[p], Normalize(items[p][idx[p]]))
    /\ idx' = [idx EXCEPT ![p] = idx[p] + 1]
    /\ existing' = [existing EXCEPT ![p] = NoneV]
    /\ pc' = [pc EXCEPT ![p] = "loop"]
    /\ UNCHANGED <<due, started, content, items, result, touched, runStart, source, lastOk,
                   again, swallowed, hist, markVars, readVars>>

\* insert_one(..).await? fails: the error is returned
InsertErr(p) ==
    /\ pc[p] = "check"
    /\ existing[p] = NoneV
    /\ result' = [result EXCEPT ![p] = "StoreError"]
    /\ pc' = [pc EXCEPT ![p] = "ret"]
    /\ UNCHANGED <<store, due, started, content, items, idx, existing, touched, runStart,
                   source, lastOk, again, swallowed, hist, markVars, readVars>>

\* a scheduler loop that ends when a run fails
AfterRunBreak(p, r) == IF p = "sched" /\ r # "Ok" THEN "stopped" ELSE Rest(p)

\* where a task goes when its run has returned r: the scheduler back to
\* interval.tick() for Ok and for Err alike, force_check to its response
AfterRun(p, r) == Rest(p)

\* fetch_and_store_feed has returned: the scheduler logs an error and loops,
\* force_check answers 200 or 500
Return(p) ==
    /\ pc[p] = "ret"
    /\ lastOk' = IF hist /\ result[p] = "Ok" THEN content[p] ELSE NoContent
    /\ again' = [again EXCEPT ![p] = FALSE]
    /\ swallowed' = IF source = "live" /\ p = "sched" /\ IsError(result[p])
                    THEN TRUE ELSE swallowed
    /\ UNCHANGED <<source, hist>>
    /\ pc' = [pc EXCEPT ![p] = AfterRun(p, result[p])]
    /\ content' = [content EXCEPT ![p] = NoContent]
    /\ items' = [items EXCEPT ![p] = <<>>]
    /\ idx' = [idx EXCEPT ![p] = 0]
    /\ existing' = [existing EXCEPT ![p] = NoneV]
    /\ result' = [result EXCEPT ![p] = "none"]
    /\ touched' = [touched EXCEPT ![p] = 0]
    /\ runStart' = [runStart EXCEPT ![p] = <<>>]
    /\ UNCHANGED <<store, due, started, markVars, readVars>>

\* ---------------------------------------------------------- mark-posted
\* POST /items/mark-posted arrives and update_many is issued
MarkCall ==
    /\ mpc = "idle"
    /\ CanStart
    /\ started' = Started
    /\ lastOk' = NoContent
    /\ \E ls \in LinkSets : markLinks' = ls
    /\ mpc' = "updating"
    /\ markPos' = 1
    /\ markCount' = 0
    /\ markStart' = Len(store)
    /\ preStore' = IF hist THEN store ELSE <<>>
    /\ UNCHANGED <<store, due, pc, content, items, idx, existing, result, touched,
                   runStart, source, again, swallowed, hist, mres, marked, readVars>>

\* update_many reaches the next document in natural order and, if the filter
\* matches, writes it; documents inserted meanwhile are reached as well
MarkStep ==
    /\ mpc = "updating"
    /\ markPos <= Len(store)
    /\ IF MarkFilter(store[markPos], markLinks)
       THEN /\ store' = [store EXCEPT ![markPos] = SetPosted(store[markPos])]
            /\ markCount' = markCount + Modified(store[markPos])
       ELSE UNCHANGED <<store, markCount>>
    /\ markPos' = markPos + 1
    /\ UNCHANGED <<due, started, ingestVars, mpc, markLinks, mres, markStart, preStore,
                   marked, readVars>>

\* update_many returns Ok(result): 200 with items_updated = modified_count
MarkDone ==
    /\ mpc = "updating"
    /\ markPos > Len(store)
    /\ mres' = 200
    /\ mpc' = "respond"
    /\ marked' = IF hist THEN marked \cup { l \in markLinks : Matching(preStore, l) # {} }
                  ELSE marked
    /\ UNCHANGED <<store, due, started, ingestVars, markLinks, markPos, markCount,
                   markStart, preStore, readVars>>

\* update_many returns Err: 500
MarkErr ==
    /\ mpc = "updating"
    /\ mres' = 500
    /\ mpc' = "respond"
    /\ UNCHANGED <<store, due, started, ingestVars, markLinks, markPos, markCount,
                   markStart, preStore, marked, readVars>>

\* the response has been sent
MarkReturn ==
    /\ mpc = "respond"
    /\ mpc' = "idle"
    /\ markLinks' = {}
    /\ markPos' = 0
    /\ markCount' = 0
    /\ mres' = 0
    /\ markStart' = 0
    /\ preStore' = <<>>
    /\ UNCHANGED <<store, due, started, ingestVars, marked, readVars>>

\* ---------------------------------------------------------------- reads
\* GET /items: find({}) and try_collect succeed
GetItems ==
    /\ rpc = "idle"
    /\ CanStart
    /\ started' = Started
    /\ lastOk' = NoContent
    /\ rres' = SelectSeq(store, AllFilter)
    /\ rstatus' = 200
    /\ rpc' = "items"
    /\ UNCHANGED <<store, due, pc, content, items, idx, existing, result, touched,
                   runStart, source, again, swallowed, hist, markVars>>

\* GET /items/unposted: find({posted: false}) and try_collect succeed
GetUnpostedItems ==
    /\ rpc = "idle"
    /\ CanStart
    /\ started' = Started
    /\ lastOk' = NoContent
    /\ rres' = SelectSeq(store, UnpostedFilter)
    /\ rstatus' = 200
    /\ rpc' = "unposted"
    /\ UNCHANGED <<store, due, pc, content, items, idx, existing, result, touched,
                   runStart, source, again, swallowed, hist, markVars>>

\* either read fails in find or in try_collect: 500 with an empty body
ReadErr ==
    /\ rpc = "idle"
    /\ CanStart
    /\ started' = Started
    /\ lastOk' = NoContent
    /\ \E k \in { "items", "unposted" } : rpc' = k
    /\ rres' = <<>>
    /\ rstatus' = 500
    /\ UNCHANGED <<store, due, pc, content, items, idx, existing, result, touched,
                   runStart, source, again, swallowed, hist, markVars>>

\* the response has been sent
ReadReturn ==
    /\ rpc # "idle"
    /\ rpc' = "idle"
    /\ rres' = <<>>
    /\ rstatus' = 0
    /\ UNCHANGED <<store, due, started, ingestVars, markVars>>

\* ------------------------------------------------------- specifications
Step(p) ==
    \/ FetchOk(p)
    \/ FetchErr(p)
    \/ Parse(p)
    \/ LoopDone(p)
    \/ FindStep(p)
    \/ FindErr(p)
    \/ CheckStep(p)
    \/ InsertErr(p)
    \/ Return(p)

Next ==
    \/ TimerFire
    \/ SchedTick
    \/ ForceCheck
    \/ \E p \in Procs : Step(p)
    \/ MarkCall
    \/ MarkStep
    \/ MarkDone
    \/ MarkErr
    \/ MarkReturn
    \/ GetItems
    \/ GetUnpostedItems
    \/ ReadErr
    \/ ReadReturn

\* every task and every handler runs concurrently with the others
Spec == Init /\ [][Next]_vars

\* no operation is in flight
Quiet ==
    /\ \A p \in Procs : pc[p] = Rest(p)
    /\ mpc = "idle"
    /\ rpc = "idle"

\* one operation at a time: an operation starts only when none is in flight
SeqNext ==
    \/ Quiet /\ TimerTick
    \/ Quiet /\ SchedTick
    \/ Quiet /\ ForceCheck
    \/ \E p \in Procs : Step(p)
    \/ Quiet /\ MarkCall
    \/ MarkStep
    \/ MarkDone
    \/ MarkErr
    \/ MarkReturn
    \/ Quiet /\ GetItems
    \/ Quiet /\ GetUnpostedItems
    \/ Quiet /\ ReadErr
    \/ ReadReturn

SpecSeq == InitSeq /\ [][SeqNext]_vars

\* the scheduler's runs and mark-posted calls, one at a time: the collections that
\* ingestion and posting build, and the runs of fetch_and_store_feed over them
RunsNext ==
    \/ Quiet /\ TimerTick
    \/ Quiet /\ SchedTick
    \/ Step("sched")
    \/ Quiet /\ MarkCall
    \/ MarkStep
    \/ MarkDone
    \/ MarkErr
    \/ MarkReturn

SpecRuns == InitSeq /\ [][RunsNext]_vars

\* two runs, a mark-posted call and a read, all concurrent, over the one-entry feed
InitPost == Start /\ source = "one" /\ hist = TRUE

SpecPost == InitPost /\ [][Next]_vars

\* the process runs on: operations are started without limit
InitLive == Start /\ source = "live" /\ hist = FALSE

\* the timer reaches every deadline, the runtime resumes the scheduler task when
\* its tick is due, and a run that has returned goes back to the loop
Fairness ==
    /\ WF_vars(TimerFire)
    /\ WF_vars(SchedTick)
    /\ WF_vars(Return("sched"))

\* the timer, the scheduler task and the /force-check handler
LiveNext ==
    \/ TimerFire
    \/ SchedTick
    \/ ForceCheck
    \/ \E p \in Procs : Step(p)

SpecLive == InitLive /\ [][LiveNext]_vars /\ Fairness

\* ------------------------------------------------------------ properties
Range(q) == { q[i] : i \in 1..Len(q) }

\* the link values stored in collection s
Links(s) == { s[i].link : i \in 1..Len(s) }

\* the link values of the normalized entries of channel f
FeedLinks(f) == { Normalize(f[i]).link : i \in 1..Len(f) }

\* the documents a run has appended to the collection it started from
Added(p) == SubSeq(store, Len(runStart[p]) + 1, Len(store))

\* C1: in every reachable state, under any interleaving of scheduler runs,
\* on-demand runs and mark-posted calls, no two stored documents have the same link.
C1_UniqueLink ==
    \A i, j \in 1..Len(store) : store[i].link = store[j].link => i = j

\* C2: a run that fetches the document the latest run fetched, that run having
\* returned Ok, itself returns Ok with the collection exactly as it was when the
\* run started: no document inserted, no field changed.
C2_Idempotent ==
    \A p \in Procs :
        (pc[p] = "ret" /\ again[p]) => (result[p] = "Ok" => store = runStart[p])

\* a second Ok run over an unchanged two-entry feed, on a collection that held a
\* document with another title for one of the feed's links before the first run
C2_Witness ==
    \E p \in Procs :
        /\ pc[p] = "ret" /\ result[p] = "Ok" /\ again[p]
        /\ Len(items[p]) = 2
        /\ \E i \in 1..Len(store), k \in 1..2 :
               /\ store[i].link = Normalize(items[p][k]).link
               /\ store[i] \notin { Normalize(items[p][n]) : n \in 1..2 }

\* C3: a run that is not interleaved with another operation and returns Ok has
\* left the documents it started from as they were and has appended exactly one
\* document for each link of the feed that was not stored, each the normalized
\* form of a feed entry with posted = false, and nothing else.
C3_InsertsNewLinks ==
    \A p \in Procs :
        (pc[p] = "ret" /\ result[p] = "Ok") =>
            /\ Len(store) >= Len(runStart[p])
            /\ SubSeq(store, 1, Len(runStart[p])) = runStart[p]
            /\ Links(Added(p)) = FeedLinks(items[p]) \ Links(runStart[p])
            /\ Len(Added(p)) = Cardinality(FeedLinks(items[p]) \ Links(runStart[p]))
            /\ \A i \in 1..Len(Added(p)) :
                   /\ Added(p)[i].posted = FALSE
                   /\ \E k \in 1..Len(items[p]) : Added(p)[i] = Normalize(items[p][k])

\* an Ok run over a feed with one stored link and one new link
C3_Witness ==
    \E p \in Procs :
        /\ pc[p] = "ret" /\ result[p] = "Ok"
        /\ runStart[p] # <<>>
        /\ Len(Added(p)) = 1
        /\ FeedLinks(items[p]) \cap Links(runStart[p]) # {}

\* the entry a task is processing
Current(p) == Normalize(items[p][idx[p]])

\* C4: the steps by which a run processes a feed entry whose link is the link of a
\* stored document (the lookup, then the skip) leave the collection exactly as it
\* is: title, description, publication date and posted flag of the stored document
\* keep their values, whatever the feed carries and whether or not it is posted.
C4_SkipKeepsEntry ==
    [][ \A p \in Procs :
            ( /\ pc[p] \in { "loop", "check" }
              /\ idx[p] <= Len(items[p])
              /\ Current(p).link \in Links(store)
              /\ pc'[p] # pc[p] )
            => store' = store ]_vars

\* a run has gone past an entry whose link is stored with another title and posted
C4_Witness ==
    \E p \in Procs :
        /\ pc[p] = "loop"
        /\ idx[p] >= 2
        /\ \E i \in 1..Len(store) :
               /\ store[i].link = Normalize(items[p][idx[p] - 1]).link
               /\ store[i].title # Normalize(items[p][idx[p] - 1]).title
               /\ store[i].description # Normalize(items[p][idx[p] - 1]).description
               /\ store[i].posted

\* C5: a run whose fetch failed or whose fetched bytes did not parse returns an
\* error, has issued no store operation, and leaves the collection as it was when
\* the run started; /force-check answers it with a failure status.
C5_FetchParseFailure ==
    \A p \in Procs :
        pc[p] = "ret" =>
            /\ (~content[p].wellformed) =>
                   /\ result[p] \in { "FetchError", "ParseError" }
                   /\ ForceStatus(result[p]) = 500
            /\ result[p] \in { "FetchError", "ParseError" } =>
                   /\ touched[p] = 0
                   /\ store = runStart[p]

\* a run over a non-empty collection has ended with a parse error
C5_Witness ==
    \E p \in Procs :
        /\ pc[p] = "ret" /\ result[p] = "ParseError"
        /\ store # <<>>

\* positions of the documents of s that a mark-posted call with links ls changes
Changed(s, ls) == { i \in 1..Len(s) : s[i].link \in ls /\ ~s[i].posted }

\* C6: when a mark-posted call that is not interleaved with another operation
\* answers 200, every stored document whose link is in the request is posted, every
\* other document is as it was, no document was added, and the count returned is
\* the number of stored documents whose link is in the request and that were not
\* posted before the call.
C6_MarkPostedCount ==
    (mpc = "respond" /\ mres = 200) =>
        /\ Len(store) = Len(preStore)
        /\ \A i \in 1..Len(store) :
               IF store[i].link \in markLinks
               THEN store[i] = [preStore[i] EXCEPT !.posted = TRUE]
               ELSE store[i] = preStore[i]
        /\ markCount = Cardinality(Changed(preStore, markLinks))

\* a call with a stored unposted link and a link that is not stored answers 200
\* with count 1, next to a stored document the request does not name
C6_Witness ==
    /\ mpc = "respond" /\ mres = 200
    /\ markLinks = { "A", "B" }
    /\ "A" \in Links(preStore) /\ "B" \notin Links(preStore)
    /\ markCount = 1
    /\ \E i \in 1..Len(store) : ~store[i].posted

\* C7: the body of a successful GET /items/unposted that is not interleaved with
\* another operation holds exactly the stored documents with posted = false, each
\* once, and none whose link a completed mark-posted call has named while it was
\* stored.
C7_UnpostedExact ==
    (rpc = "unposted" /\ rstatus = 200) =>
        /\ \A k \in 1..Len(rres) : rres[k] \in Range(store) /\ rres[k].posted = FALSE
        /\ \A i \in 1..Len(store) : store[i].posted = FALSE => store[i] \in Range(rres)
        /\ Len(rres) = Cardinality({ i \in 1..Len(store) : store[i].posted = FALSE })
        /\ \A k \in 1..Len(rres) : rres[k].link \notin marked

\* the read follows a mark-posted call and returns some, not all, of the documents
C7_Witness ==
    /\ rpc = "unposted" /\ rstatus = 200
    /\ marked # {}
    /\ rres # <<>>
    /\ Len(rres) < Len(store)

\* C8: in every step, a stored document's posted flag either keeps its value or
\* goes from false to true, and it changes only in the step in which update_many
\* writes that document for a mark-posted request naming its link.
C8_PostedOnlySet ==
    [][ \A i \in 1..Len(store) :
            (i <= Len(store') /\ store'[i].posted # store[i].posted) =>
                /\ store[i].posted = FALSE
                /\ store'[i].posted = TRUE
                /\ mpc = "updating"
                /\ markPos = i
                /\ markPos' = i + 1
                /\ store[i].link \in markLinks ]_vars

\* a run has gone past an entry whose link is stored and posted
C8_Witness ==
    \E p \in Procs :
        /\ pc[p] = "loop"
        /\ idx[p] >= 2
        /\ \E i \in 1..Len(store) :
               /\ store[i].link = Normalize(items[p][idx[p] - 1]).link
               /\ store[i].posted

\* C9: no successful GET /items/unposted that runs while update_many is in progress
\* returns a document named by the request when update_many has already posted
\* another document that was stored when it was issued (no document was inserted
\* since, so every document written or still listed was stored before the call).
C9_MarkAtomicForReaders ==
    [][ ( /\ rpc = "idle" /\ rpc' = "unposted" /\ rstatus' = 200
          /\ mpc = "updating"
          /\ Len(store) = markStart
          /\ markCount > 0 )
        => \A k \in 1..Len(rres') : rres'[k].link \notin markLinks ]_vars

\* C10: no step removes a stored document or changes its title, link, description
\* or publication date: the collection only grows.
C10_NeverDeleted ==
    [][ /\ Len(store') >= Len(store)
        /\ \A i \in 1..Len(store) :
               /\ store'[i].title = store[i].title
               /\ store'[i].link = store[i].link
               /\ store'[i].description = store[i].description
               /\ store'[i].pub_date = store[i].pub_date ]_vars

\* a failed run has ended over a collection that holds a posted document
C10_Witness ==
    \E p \in Procs :
        /\ pc[p] = "ret" /\ IsError(result[p])
        /\ \E i \in 1..Len(store) : store[i].posted

\* the texts a field of a stored document can hold
Texts == { "", "t1", "t2", "A", "B", "d1", "p1", "p2" }

\* field f of document d is the raw entry's value when present, else ""
FieldKept(d, raw, f) == IF raw[f] = NoneV THEN d[f] = "" ELSE d[f] = raw[f][1]

\* C11: whenever a run inserts a document for a raw entry, each of title, link,
\* description and publication date of the document is a text, equal to the raw
\* entry's field when the entry has it and to the empty string when it does not,
\* and posted is false; the step that builds the record has no failing outcome.
C11_NormalizeDefaults ==
    [][ \A p \in Procs :
            ( /\ pc[p] = "check" /\ pc'[p] = "loop"
              /\ Len(store') = Len(store) + 1 )
            => LET raw == items[p][idx[p]]
                   d   == store'[Len(store')]
               IN  /\ \A f \in { "title", "link", "description", "pub_date" } :
                          d[f] \in Texts /\ FieldKept(d, raw, f)
                   /\ d.posted = FALSE ]_vars

\* a run has inserted the entry that has a description and a publication date
\* and neither title nor link
C11_Witness ==
    \E p \in Procs :
        /\ pc[p] = "loop" /\ idx[p] >= 2
        /\ items[p][idx[p] - 1] = Raw(NoneV, NoneV, Some("d1"), Some("p1"))
        /\ store # <<>>
        /\ store[Len(store)] =
               [title |-> "", link |-> "", description |-> "d1", pub_date |-> "p1",
                posted |-> FALSE]

\* C12: nothing keeps the scheduler's run and an on-demand run apart: a run that
\* found the link of its entry absent inserts a document with that link when its
\* insert completes, whatever the other run has inserted since the lookup; so both
\* runs can find the same link absent before either inserts, and both then insert.
C12_BothInsert ==
    [][ \A p \in Procs :
            ( /\ pc[p] = "check" /\ existing[p] = NoneV /\ pc'[p] = "loop" )
            => store' = Append(store, Current(p)) ]_vars

\* the only two operations started are the two runs, each is past its first entry,
\* and the collection holds two documents with the same link: each run found the
\* link absent and each has inserted it
C12_Witness ==
    /\ started = 2
    /\ \A p \in Procs : pc[p] = "loop" /\ idx[p] = 2
    /\ items["sched"][1] = items["force"][1]
    /\ Len(store) = 2
    /\ store[1].link = store[2].link
    /\ store[1].link = Normalize(items["sched"][1]).link

\* C13: a due tick is consumed only while the scheduler loop waits in
\* interval.tick(), and consuming it starts one run; so a scheduler run starts only
\* when none is in flight, and a tick that becomes due during a run stays due
\* until the run has returned.
C13_NoSelfOverlap ==
    [][ /\ due' < due => (pc["sched"] = "tick" /\ pc'["sched"] = "fetch")
        /\ (pc["sched"] # "tick" /\ pc'["sched"] = "fetch") => pc["sched"] = "fetch"
        /\ pc["sched"] # "tick" => due' >= due ]_vars

\* a tick became due during the scheduler's run and is still due when the run ends
C13_Witness ==
    /\ pc["sched"] = "ret"
    /\ due = 1
    /\ store # <<>>

\* C14: whenever a run started by the scheduler has returned an error (fetch,
\* parse or store), the scheduler loop goes on and a further scheduler run begins.
C14_SchedulerSurvives ==
    (pc["sched"] = "ret" /\ IsError(result["sched"])) ~> (pc["sched"] = "fetch")

\* the scheduler has dropped the error of a run and has started another run
C14_Witness ==
    /\ swallowed
    /\ pc["sched"] = "fetch"

\* C15: a run that has returned a store error stopped at one entry of its feed:
\* the documents it started from are as they were, the documents it added are
\* exactly those for the new links among the entries before that entry (none for
\* that entry or a later one), and /force-check answers it with a failure status;
\* the next step of the task ends the run without a further store operation.
C15_StoreErrorEndsRun ==
    /\ [](\A p \in Procs :
            (pc[p] = "ret" /\ result[p] = "StoreError") =>
                /\ idx[p] \in 1..Len(items[p])
                /\ Len(store) >= Len(runStart[p])
                /\ SubSeq(store, 1, Len(runStart[p])) = runStart[p]
                /\ Links(Added(p)) =
                       FeedLinks(SubSeq(items[p], 1, idx[p] - 1)) \ Links(runStart[p])
                /\ Len(Added(p)) = Cardinality(Links(Added(p)))
                /\ ForceStatus(result[p]) >= 400)
    /\ [][ \A p \in Procs :
              (pc[p] = "ret" /\ result[p] = "StoreError" /\ pc'[p] # "ret") =>
                  /\ pc'[p] = Rest(p)
                  /\ store' = store
                  /\ touched'[p] = 0 ]_vars

\* the on-demand run has inserted its first entry and has failed with a store error
\* at its second entry, whose link is not stored
C15_Witness ==
    /\ pc["force"] = "ret" /\ result["force"] = "StoreError"
    /\ idx["force"] = 2
    /\ Len(Added("force")) = 1
    /\ Normalize(items["force"][2]).link \notin Links(store)

\* the for loop of fetch_and_store_feed over channel f from entry i on, every
\* store operation succeeding and no other operation in between
RECURSIVE IngestFrom(_, _, _)
IngestFrom(s, f, i) ==
    IF i > Len(f) THEN s
    ELSE IngestFrom(StoreAfterCheck(s, FindOne(s, Normalize(f[i]).link), Normalize(f[i])),
                    f, i + 1)

\* the collection a successful, non-interleaved run over channel f leaves
IngestAll(s, f) == IngestFrom(s, f, 1)

\* the channels that hold the entries of f in another order
Reorderings(f) == { [i \in 1..Len(f) |-> f[pi[i]]] : pi \in Permutations(1..Len(f)) }

\* how many documents of s equal d
Copies(s, d) == Cardinality({ i \in 1..Len(s) : s[i] = d })

\* collections s and t hold the same documents, each as often
SameEntries(s, t) == \A d \in Range(s) \cup Range(t) : Copies(s, d) = Copies(t, d)

\* the documents of s with link l
WithLink(s, l) == { s[i] : i \in Matching(s, l) }

\* the entries of f with link l differ in no field
Agree(f, l) ==
    \A i, j \in 1..Len(f) :
        (Normalize(f[i]).link = l /\ Normalize(f[j]).link = l)
            => Normalize(f[i]) = Normalize(f[j])

\* C16 as stated: when a non-interleaved run has returned Ok, a run from the same
\* start collection over any reordering of the same feed would have left the same
\* stored documents, field for field.
C16_OrderIrrelevant ==
    \A p \in Procs :
        (pc[p] = "ret" /\ result[p] = "Ok") =>
            \A g \in Reorderings(items[p]) :
                SameEntries(IngestAll(runStart[p], g), store)

\* C16 amended: a run over any reordering of the feed would have left the same
\* number of documents and the same stored links, with the same documents for
\* every link that was stored before the run or whose entries in the feed agree in
\* every field.
C16_OrderIrrelevantAgreeing ==
    \A p \in Procs :
        (pc[p] = "ret" /\ result[p] = "Ok") =>
            /\ store = IngestAll(runStart[p], items[p])
            /\ \A g \in Reorderings(items[p]) :
                   LET t == IngestAll(runStart[p], g)
                   IN  /\ Len(t) = Len(store)
                       /\ Links(t) = Links(store)
                       /\ \A l \in Links(store) :
                              (l \in Links(runStart[p]) \/ Agree(items[p], l))
                                  => /\ WithLink(t, l) = WithLink(store, l)
                                     /\ \A d \in WithLink(store, l) :
                                            Copies(t, d) = Copies(store, d)

\* an Ok run has inserted both entries of a two-entry feed after a stored document
C16_Witness ==
    \E p \in Procs :
        /\ pc[p] = "ret" /\ result[p] = "Ok"
        /\ runStart[p] # <<>>
        /\ Len(items[p]) = 2
        /\ Len(Added(p)) = 2
        /\ IngestAll(runStart[p], <<items[p][2], items[p][1]>>) # store

\* position of the first entry of channel f whose normalized link is l
FirstWith(f, l) == Min({ i \in 1..Len(f) : Normalize(f[i]).link = l })

\* C17: when a non-interleaved run has returned Ok, every link of the feed that
\* was not stored at the start is the link of exactly one stored document, and that
\* document carries the title, description and publication date of the first entry
\* of the feed with that link, however many entries of the feed have the link.
C17_FirstEntryWins ==
    \A p \in Procs :
        (pc[p] = "ret" /\ result[p] = "Ok") =>
            \A l \in FeedLinks(items[p]) \ Links(runStart[p]) :
                /\ Cardinality(Matching(store, l)) = 1
                /\ \A i \in Matching(store, l) :
                       LET first == items[p][FirstWith(items[p], l)]
                       IN  /\ i > Len(runStart[p])
                           /\ store[i].title = UnwrapOrDefault(first.title)
                           /\ store[i].description = UnwrapOrDefault(first.description)
                           /\ store[i].pub_date = UnwrapOrDefault(first.pub_date)
                           /\ store[i].posted = FALSE

\* an Ok run over a feed with two entries of one link that was not stored: one
\* document was added, with the title of the first entry and not of the second
C17_Witness ==
    \E p \in Procs :
        /\ pc[p] = "ret" /\ result[p] = "Ok"
        /\ Len(items[p]) = 2
        /\ items[p][1].link = items[p][2].link
        /\ items[p][1].link # NoneV
        /\ Len(Added(p)) = 1
        /\ Added(p)[1].title = UnwrapOrDefault(items[p][1].title)
        /\ Added(p)[1].title # UnwrapOrDefault(items[p][2].title)

\* C18: a document is added only by the insert of an ingestion run that found the
\* link absent; no step of mark-posted or of a read adds a document, a read leaves
\* the collection as it is, and a step of mark-posted leaves title, link,
\* description and publication date of every document, and the posted flag of every
\* document whose link the request does not name, as they are.
C18_OnlyIngestionCreates ==
    [][ /\ Len(store') > Len(store) =>
               \E p \in Procs :
                   /\ pc[p] = "check" /\ pc'[p] = "loop" /\ existing[p] = NoneV
                   /\ store' = Append(store, Current(p))
        /\ rpc' # rpc => store' = store
        /\ (mpc' # mpc \/ markPos' # markPos) =>
               /\ Len(store') = Len(store)
               /\ \A i \in 1..Len(store) :
                      /\ store'[i].title = store[i].title
                      /\ store'[i].link = store[i].link
                      /\ store'[i].description = store[i].description
                      /\ store'[i].pub_date = store[i].pub_date
                      /\ store[i].link \notin markLinks
                             => store'[i].posted = store[i].posted ]_vars

\* a mark-posted call naming only a link that is not stored has answered 200 over a
\* collection that holds a document: nothing was created, nothing changed
C18_Witness ==
    /\ mpc = "respond" /\ mres = 200
    /\ markLinks = { "B" }
    /\ store # <<>>
    /\ "B" \notin Links(store)
    /\ store = preStore
    /\ markCount = 0

\* C19: with runs one at a time, at most one stored document has the empty link;
\* when a run goes past an entry without link, it has inserted a document with the
\* empty link if none was stored, and has left the collection as it was if one
\* was, whatever the other fields of the entry.
C19_OneLinklessEntry ==
    /\ [](Cardinality(Matching(store, "")) <= 1)
    /\ [][ \A p \in Procs :
              ( /\ pc[p] = "check" /\ pc'[p] = "loop"
                /\ items[p][idx[p]].link = NoneV )
              => IF Matching(store, "") # {}
                 THEN store' = store
                 ELSE /\ Len(store') = Len(store) + 1
                      /\ SubSeq(store', 1, Len(store)) = store
                      /\ store'[Len(store')].link = ""
                      /\ \A i \in 1..Len(store') : store'[i].link \in Links(store) \cup { "" }
          ]_vars

\* a run that started over a collection holding a link-less document has gone past
\* a link-less entry with other fields, and the collection holds no document for it
C19_Witness ==
    \E p \in Procs :
        /\ pc[p] = "loop" /\ idx[p] >= 2
        /\ items[p][idx[p] - 1].link = NoneV
        /\ "" \in Links(runStart[p])
        /\ Normalize(items[p][idx[p] - 1]) \notin Range(store)
        /\ store = runStart[p]

\* C20: a successful GET /items/unposted that starts after a mark-posted call has
\* answered returns no document whose link that call named while a document with
\* the link was stored, whatever ingestion runs do before, during and after the
\* call.
C20_PostedStaysHidden ==
    [][ ( /\ rpc = "idle" /\ rpc' = "unposted" /\ rstatus' = 200
          /\ mpc = "idle" )
        => \A k \in 1..Len(rres') : rres'[k].link \notin marked ]_vars

====
